---- MODULE Spec2Model ----
(***************************************************************************)
(* Model of the query-resolution workflow of src/main.py: the LangGraph    *)
(* state graph built at lines 161-267 and the /query endpoint run_query    *)
(* (lines 273-286) that drives it.                                         *)
(*                                                                         *)
(* One run of run_query is one behaviour: Init is the state handed to      *)
(* workflow_app.invoke, every node of the graph is one action, and the     *)
(* extraction of the final answer after the graph has ended is the last    *)
(* action.  The language model, the database and the tool runtime are the  *)
(* environment: their replies are drawn from small sets.                   *)
(***************************************************************************)
EXTENDS Integers, Sequences, FiniteSets, TLC

VARIABLES
    question,    \* request.query, the input of run_query
    messages,    \* State["messages"], the conversation of this run
    pc,          \* the node the graph runs next ("__end__": graph finished)
    steps,       \* nodes run by workflow_app.invoke so far
    genEntries,  \* number of times query_gen has been entered in this run
    outcome,     \* what run_query gives back: nothing yet, 200 or 500
    llmInput,    \* the messages handed to the last call of the language model
    runs,        \* the other invocations of run_query in flight, by request
    active,      \* the request whose invocation the variables above hold
    table,       \* the rows of the outlets table of subway.db
    response     \* what the last call of /outlets or /outlets/{id} gave back

\* the state of one invocation of run_query
invocation == <<question, messages, pc, steps, genEntries, outcome, llmInput>>

\* what a node of the graph leaves alone: the other invocations, the table
\* and the responses of the lookups
others == <<runs, active, table, response>>

vars == <<invocation, others>>

----------------------------------------------------------------------------
(* Bounds of the exploration.                                              *)

\* most tool calls the language model puts into one message
MaxCalls == 2

\* number of query_gen entries for which every kind of reply is explored
MaxGen == 1

(* Nodes one workflow_app.invoke may run.  The source sets no limit of its *)
(* own (compile() at line 267 and invoke(state) at line 278 pass no        *)
(* config), so the run is under the default recursion_limit of the graph   *)
(* library: once that many nodes have run, invoke raises                   *)
(* GraphRecursionError, also when the last of them routed to END.          *)
RecursionLimit == 25

----------------------------------------------------------------------------
(* Text helpers.                                                           *)

\* str.startswith
StartsWith(s, p) == Len(s) >= Len(p) /\ SubSeq(s, 1, Len(p)) = p

\* Python truthiness of a string
Truthy(s) == s # ""

ErrorPrefix == "Error:"

\* the literal returned by db_query_tool when run_no_throw gives a falsy value
QueryFailed == "Error: Query failed. Please rewrite your query and try again."

\* content of the ToolMessage query_gen_node synthesizes for a wrong tool
WrongToolText(name) ==
    "Error: The wrong tool was called: " \o name
    \o ". Please fix your mistakes. Remember to only call SubmitFinalAnswer to submit the final answer. Generated queries should be outputted WITHOUT a tool call."

\* ToolErrorText with the "Error: " prefix left out of the f-string
ToolErrorTextBare(err) == err \o "\n please fix your mistakes."

\* content of the ToolMessage of handle_tool_error, line 99; err is repr(error)
ToolErrorText(err) == "Error: " \o err \o "\n please fix your mistakes."

\* content of the ToolMessage with which ToolNode(tools), line 108, answers
\* a call whose invocation raised; err is repr(error)
ToolCallErrorText(err) == "Error: " \o err \o "\n Please fix your mistakes."

----------------------------------------------------------------------------
(* Messages.  One record shape for all of them:                            *)
(*   type          "human" | "ai" | "tool"                                 *)
(*   content       the text                                                *)
(*   tool_calls    the calls of an AIMessage, << >> for the others         *)
(*   tool_call_id  the call a ToolMessage answers, "" for the others       *)
(* A tool call is [name, args, id]; args is a set of <<key, value>> pairs. *)

HumanMessage(text) ==
    [type |-> "human", content |-> text, tool_calls |-> << >>, tool_call_id |-> ""]

AIMessage(text, calls) ==
    [type |-> "ai", content |-> text, tool_calls |-> calls, tool_call_id |-> ""]

ToolMessage(text, id) ==
    [type |-> "tool", content |-> text, tool_calls |-> << >>, tool_call_id |-> id]

ToolCall(name, args, id) == [name |-> name, args |-> args, id |-> id]

HasArg(args, key) == \E p \in args : p[1] = key

Arg(args, key) == (CHOOSE p \in args : p[1] = key)[2]

Last(seq) == seq[Len(seq)]

----------------------------------------------------------------------------
(* The database behind db (SQLDatabase.from_uri, line 82): a fixed outlets *)
(* table, seen through the statements the language model may send.         *)

QEarliest == "SELECT name, start_time FROM outlets ORDER BY start_time ASC LIMIT 5"
QNone     == "SELECT name, start_time FROM outlets WHERE start_time < '00:00' LIMIT 5"
QBadCol   == "SELECT name, opens_at FROM outlets LIMIT 5"
QNames    == "SELECT name FROM outlets LIMIT 5"

Queries == {QEarliest, QNone, QBadCol, QNames}

\* what the engine does with a statement: the rows, or the driver's error
DbExecute(query) ==
    CASE query = QEarliest -> [ok |-> TRUE,  rows |-> << <<"Outlet A", "06:00">> >>, error |-> ""]
      [] query = QNone     -> [ok |-> TRUE,  rows |-> << >>, error |-> ""]
      [] query = QNames    -> [ok |-> TRUE,  rows |-> << <<"Outlet A">> >>, error |-> ""]
      [] OTHER             -> [ok |-> FALSE, rows |-> << >>,
                               error |-> "(sqlite3.OperationalError) no such column: opens_at"]

RECURSIVE JoinWith(_, _)
\* sep.join(parts)
JoinWith(parts, sep) ==
    IF parts = << >> THEN ""
    ELSE IF Len(parts) = 1 THEN parts[1]
    ELSE parts[1] \o sep \o JoinWith(Tail(parts), sep)

\* str() of a tuple of strings
StrTuple(row) ==
    IF Len(row) = 1 THEN "('" \o row[1] \o "',)"
    ELSE "(" \o JoinWith([i \in 1..Len(row) |-> "'" \o row[i] \o "'"], ", ") \o ")"

\* str() of a list of tuples
StrRows(rows) ==
    "[" \o JoinWith([i \in 1..Len(rows) |-> StrTuple(rows[i])], ", ") \o "]"

\* SQLDatabase.run_no_throw: "" for no rows, str(rows), or "Error: <e>"
RunNoThrow(query) ==
    LET r == DbExecute(query) IN
    IF ~r.ok THEN "Error: " \o r.error
    ELSE IF r.rows = << >> THEN ""
    ELSE StrRows(r.rows)

\* the row lists whose str() the engine can produce
KnownRows == {DbExecute(q).rows : q \in Queries} \ {<< >>}

\* eval(text) succeeds when text is the str() of a list of tuples
EvalOk(text) == \E rows \in KnownRows : StrRows(rows) = text

EvalRows(text) == CHOOSE rows \in KnownRows : StrRows(rows) = text

\* for name, time in rows: every row must unpack into two values
Unpacks(rows) == \A i \in 1..Len(rows) : Len(rows[i]) = 2

\* db_query_tool, lines 122-133
db_query_tool(query) ==
    LET result == RunNoThrow(query) IN
    IF ~Truthy(result) THEN QueryFailed
    ELSE IF EvalOk(result) /\ Unpacks(EvalRows(result))
         THEN LET rows == EvalRows(result)
                  formatted == JoinWith([i \in 1..Len(rows) |->
                                   "- " \o rows[i][1] \o ": " \o rows[i][2]], "\n")
              IN "Query Results:\n" \o formatted
         ELSE result

\* sql_db_list_tables: the usable table names, comma separated
TableNames == "outlets"

\* sql_db_schema: the table info, or the engine's own error text
SchemaInfo(tables) ==
    IF tables = "outlets"
    THEN "CREATE TABLE outlets (id INTEGER, name TEXT, address TEXT, work_day_start TEXT, work_day_end TEXT, start_time TEXT, end_time TEXT, latitude REAL, longitude REAL)"
    ELSE "Error: table_names {'" \o tables \o "'} not found in database"

----------------------------------------------------------------------------
(* The tool nodes: ToolNode(tools).with_fallbacks([handle_tool_error]).    *)
(* What happens when the invocation of a call raises depends on the       *)
(* version of the graph library, which the source does not pin: either     *)
(* ToolNode answers that call itself with an error ToolMessage and the     *)
(* other calls as usual, or ToolNode raises and the fallback               *)
(* handle_tool_error answers every call of the message.  Both are kept.    *)

\* repr() of the errors a tool invocation raises
MissingArgument(key) == "ValidationError('" \o key \o ": Field required')"
ConnectionLost == "OperationalError('unable to open database file')"

\* the argument each tool requires ("" when it takes none)
RequiredArg(name) ==
    CASE name = "sql_db_schema" -> "table_names"
      [] name = "db_query_tool" -> "query"
      [] OTHER                  -> ""

\* TRUE when invoking the call raises: a required argument is missing
CallRaises(call) ==
    RequiredArg(call.name) # "" /\ ~HasArg(call.args, RequiredArg(call.name))

\* what the tool returns when it does not raise
CallOutput(call) ==
    CASE call.name = "sql_db_list_tables" -> TableNames
      [] call.name = "sql_db_schema"      -> SchemaInfo(Arg(call.args, "table_names"))
      [] call.name = "db_query_tool"      -> db_query_tool(Arg(call.args, "query"))
      [] OTHER                            -> ""

\* handle_tool_error answering the first call only
handle_tool_error_first(msgs, error) ==
    <<ToolMessage(ToolErrorText(error), Last(msgs).tool_calls[1].id)>>

\* handle_tool_error, lines 92-104: one error ToolMessage per call of the
\* last message, each carrying that call's id
handle_tool_error(msgs, error) ==
    LET tool_calls == Last(msgs).tool_calls IN
    [i \in 1..Len(tool_calls) |-> ToolMessage(ToolErrorText(error), tool_calls[i].id)]

\* an invocation raises in the node: envError, a failure of the
\* connection, is not "", or a call lacks its required argument
ToolNodeRaises(msgs, envError) ==
    /\ Last(msgs).tool_calls # << >>
    /\ \/ envError # ""
       \/ \E i \in 1..Len(Last(msgs).tool_calls) : CallRaises(Last(msgs).tool_calls[i])

\* repr() of the first exception raised in the node
FirstError(msgs, envError) ==
    LET tool_calls == Last(msgs).tool_calls
        raising == {i \in 1..Len(tool_calls) : CallRaises(tool_calls[i])}
    IN  IF envError # "" THEN envError
        ELSE LET first == CHOOSE i \in raising : \A j \in raising : i <= j
             IN  MissingArgument(RequiredArg(tool_calls[first].name))

\* ToolNode(tools), line 108, handling the errors of its tools: each call
\* of the last message is answered with one ToolMessage carrying its id, in
\* the order of the calls, with the output of the tool or, when its
\* invocation raised, with the error text
ToolNode(msgs, envError) ==
    LET tool_calls == Last(msgs).tool_calls
    IN  [i \in 1..Len(tool_calls) |->
            ToolMessage(IF envError # "" THEN ToolCallErrorText(envError)
                        ELSE IF CallRaises(tool_calls[i])
                        THEN ToolCallErrorText(
                                 MissingArgument(RequiredArg(tool_calls[i].name)))
                        ELSE CallOutput(tool_calls[i]),
                        tool_calls[i].id)]

(* create_tool_node_with_fallback, lines 107-111.  handled tells whether   *)
(* ToolNode answers a raising invocation itself; when it does not, the     *)
(* exception sends the whole input to the fallback handle_tool_error.      *)
ToolNodeWithFallback(msgs, envError, handled) ==
    IF ToolNodeRaises(msgs, envError) /\ ~handled
    THEN handle_tool_error(msgs, FirstError(msgs, envError))
    ELSE ToolNode(msgs, envError)

----------------------------------------------------------------------------
(* The language model (llm, lines 85-89) is the environment.  A reply is   *)
(* an AIMessage; the ids of its calls are fresh.  at is the position the   *)
(* reply takes in the conversation.                                        *)

CallId(at, i) == "call_" \o ToString(at) \o "_" \o ToString(i)

\* a reply with the calls described by specs, a sequence of [name, args]
Reply(text, specs, at) ==
    AIMessage(text, [i \in 1..Len(specs) |->
                        ToolCall(specs[i].name, specs[i].args, CallId(at, i))])

\* sequences of 1..MaxCalls elements, the first of First, the others of Rest
CallLists(First, Rest) ==
    UNION { { <<f>> \o r : f \in First, r \in [1..(n - 1) -> Rest] } : n \in 1..MaxCalls }

\* the questions sent to /query; each stands for one scenario of replies
QuestionEarliest == "Which outlet opens earliest?"
QuestionSchema   == "Which columns does the outlets table have?"
QuestionNoColumn == "Which outlet has the earliest opens_at?"
QuestionRetry    == "Which outlet is the nearest?"
QuestionHours    == "What are the names of the outlets?"

Questions == {QuestionEarliest, QuestionSchema, QuestionNoColumn,
              QuestionRetry, QuestionHours}

AnswerText  == "The outlet that opens earliest is Outlet A at 06:00."
OtherAnswer == "Outlet A"

\* str(e) of a failed call of the language model
LLMErrorText == "Error code: 503 - service unavailable"

Call(name, args) == [name |-> name, args |-> args]

\* replies of model_get_schema = llm.bind_tools([get_schema_tool]): a text,
\* or calls of sql_db_schema
SchemaReplies(q, at) ==
    LET good == Call("sql_db_schema", {<<"table_names", "outlets">>})
        unknown == Call("sql_db_schema", {<<"table_names", "staff">>})
        noArg == Call("sql_db_schema", {})
    IN  IF q = QuestionSchema
        THEN {Reply("I need no schema.", << >>, at)}
             \cup {Reply("", specs, at) : specs \in CallLists({good, unknown, noArg}, {good})}
        ELSE {Reply("", <<good>>, at)}

\* query_check bound without tool_choice="required": a plain text may come back
CheckRepliesAuto(q, at) ==
    {Reply(QEarliest, << >>, at),
     Reply("", <<[name |-> "db_query_tool", args |-> {<<"query", QEarliest>>}]>>, at)}

\* replies of query_check = prompt | llm.bind_tools([db_query_tool],
\* tool_choice="required"): one or more calls of db_query_tool
CheckReplies(q, at) ==
    LET run(query) == Call("db_query_tool", {<<"query", query>>})
        noArg == Call("db_query_tool", {})
    IN  IF q = QuestionEarliest
        THEN {Reply("", specs, at) :
                 specs \in CallLists({run(query) : query \in Queries} \cup {noArg},
                                     {run(QEarliest)})}
        ELSE IF q = QuestionNoColumn
        THEN {Reply("", <<run(QBadCol)>>, at)}
        ELSE {Reply("", <<run(QNames)>>, at)}

\* replies of query_gen = prompt | llm.bind_tools([SubmitFinalAnswer]): a
\* text, or calls; n is the number of earlier entries of query_gen
GenReplies(q, n, at) ==
    LET submit(text) == Call("SubmitFinalAnswer", {<<"final_answer", text>>})
        noArg == Call("SubmitFinalAnswer", {})
        wrong == Call("db_query_tool", {<<"query", QEarliest>>})
        firstSubmit == {submit(AnswerText), submit(""), noArg}
        ending == {Reply(text, specs, at) :
                      text \in {""}, specs \in CallLists(firstSubmit, {submit(OtherAnswer)})}
                  \cup {Reply("Error: see the final answer.", <<submit(AnswerText)>>, at)}
        every == {Reply(text, << >>, at) :
                     text \in {QEarliest, "", "Error: no such table.",
                               "error: no such table."}}
                 \cup {Reply("", specs, at) :
                          specs \in CallLists(firstSubmit \cup {wrong},
                                              {submit(OtherAnswer), wrong})}
        looping == {Reply(text, << >>, at) : text \in {QBadCol, "Error: I need the schema."}}
    IN  ending
        \cup (IF q = QuestionEarliest /\ n < MaxGen THEN every ELSE {})
        \cup (IF q = QuestionSchema /\ n < MaxGen THEN {Reply(QNames, << >>, at)} ELSE {})
        \cup (IF q = QuestionNoColumn THEN looping ELSE {})
        \cup (IF q = QuestionRetry
              THEN {Reply("Error: I need the schema.", << >>, at)} ELSE {})
        \cup (IF q = QuestionHours /\ n < MaxGen THEN {Reply(QNames, << >>, at)} ELSE {})

----------------------------------------------------------------------------
(* The graph, lines 161-267, and run_query, lines 273-286.                 *)

Nodes == {"first_tool_call", "list_tables_tool", "model_get_schema",
          "get_schema_tool", "query_gen", "correct_query", "execute_query"}

NoOutcome == [kind |-> "none", text |-> ""]
Answer(text) == [kind |-> "answer", text |-> text]     \* 200, the string
Failure(text) == [kind |-> "failure", text |-> text]   \* HTTPException(500, str(e))

\* str(e) of the exceptions run_query turns into a 500
MissingFinalAnswerText == "Final answer missing in the tool call."
KeyErrorText == "'final_answer'"
RecursionText ==
    "Recursion limit of 25 reached without hitting a stop condition."

\* the rows of outlets that DbExecute answers from
OutletsTable == <<[id |-> 1, name |-> "Outlet A", start_time |-> "06:00"]>>

\* no lookup has been answered
NoResponse == [call |-> "", arg |-> 0, status |-> 0, body |-> << >>]

\* run_query line 277: the conversation starts as the user's question
Init ==
    /\ question \in Questions
    /\ messages = <<HumanMessage(question)>>
    /\ pc = "first_tool_call"
    /\ steps = 0
    /\ genEntries = 0
    /\ outcome = NoOutcome
    /\ llmInput = << >>
    /\ runs = << >>
    /\ active = 1
    /\ table = OutletsTable
    /\ response = NoResponse

\* every node handing the whole conversation to the language model
LLMInputWhole(node, msgs) == msgs

\* the messages a node hands to the language model: query_check gets the
\* last message only (line 177), the others the whole conversation (lines
\* 187 and 228)
LLMInput(node, msgs) == IF node = "correct_query" THEN <<Last(msgs)>> ELSE msgs

\* CanRun without the recursion limit
CanRunUnlimited(node) == pc = node

\* the node is the one the edges of lines 257-264 have led to, and the
\* recursion limit is not used up
CanRun(node) == pc = node /\ steps < RecursionLimit

\* a reducer putting the update in front of the conversation
add_messages_in_front(left, right) == right \o left

\* the add_messages reducer on State.messages: the update is appended
add_messages(left, right) == left \o right

\* first_tool_call, lines 165-173
first_tool_call ==
    /\ CanRun("first_tool_call")
    /\ messages' = add_messages(messages,
           <<AIMessage("", <<ToolCall("sql_db_list_tables", {}, "tool_abcd123")>>)>>)
    /\ pc' = "list_tables_tool"
    /\ steps' = steps + 1
    /\ UNCHANGED <<question, genEntries, outcome, llmInput, others>>

\* node list_tables_tool, line 180
list_tables_tool ==
    /\ CanRun("list_tables_tool")
    /\ \E envError \in {"", ConnectionLost}, handled \in BOOLEAN :
           messages' = add_messages(messages,
                                    ToolNodeWithFallback(messages, envError, handled))
    /\ pc' = "model_get_schema"
    /\ steps' = steps + 1
    /\ UNCHANGED <<question, genEntries, outcome, llmInput, others>>

\* node model_get_schema, lines 184-188: the model sees the whole conversation
model_get_schema ==
    /\ CanRun("model_get_schema")
    /\ \E reply \in SchemaReplies(question, Len(messages) + 1) :
           messages' = add_messages(messages, <<reply>>)
    /\ pc' = "get_schema_tool"
    /\ steps' = steps + 1
    /\ llmInput' = LLMInput("model_get_schema", messages)
    /\ UNCHANGED <<question, genEntries, outcome, others>>

\* node get_schema_tool, line 181
get_schema_tool ==
    /\ CanRun("get_schema_tool")
    /\ \E handled \in BOOLEAN :
           messages' = add_messages(messages, ToolNodeWithFallback(messages, "", handled))
    /\ pc' = "query_gen"
    /\ steps' = steps + 1
    /\ UNCHANGED <<question, genEntries, outcome, llmInput, others>>

\* query_gen_node without the rejection of wrong tools
NoWrongToolMessages(message) == << >>

\* query_gen_node rejecting only the first wrong call
WrongToolFirstOnly(message) ==
    LET tool_calls == message.tool_calls
        wrong == SelectSeq(tool_calls, LAMBDA tc : tc.name # "SubmitFinalAnswer")
    IN  IF wrong = << >> THEN << >>
        ELSE <<ToolMessage(WrongToolText(wrong[1].name), wrong[1].id)>>

\* the ToolMessages query_gen_node builds, lines 229-238
WrongToolMessages(message) ==
    LET tool_calls == message.tool_calls
        wrong == SelectSeq(tool_calls, LAMBDA tc : tc.name # "SubmitFinalAnswer")
    IN  [i \in 1..Len(wrong) |-> ToolMessage(WrongToolText(wrong[i].name), wrong[i].id)]

\* should_continue looking at the text before the calls
should_continue_text_first(msgs) ==
    LET last_message == Last(msgs) IN
    IF StartsWith(last_message.content, ErrorPrefix) THEN "query_gen"
    ELSE IF last_message.tool_calls # << >> THEN "__end__"
    ELSE "correct_query"

\* should_continue, lines 246-254
should_continue(msgs) ==
    LET last_message == Last(msgs) IN
    IF last_message.tool_calls # << >> THEN "__end__"
    ELSE IF StartsWith(last_message.content, ErrorPrefix) THEN "query_gen"
    ELSE "correct_query"

\* query_gen_node, lines 227-239, and the conditional edge of line 262
query_gen_node ==
    /\ CanRun("query_gen")
    /\ \E message \in GenReplies(question, genEntries, Len(messages) + 1) :
           /\ messages' = add_messages(messages, <<message>> \o WrongToolMessages(message))
           /\ pc' = should_continue(messages')
    /\ genEntries' = genEntries + 1
    /\ steps' = steps + 1
    /\ llmInput' = LLMInput("query_gen", messages)
    /\ UNCHANGED <<question, outcome, others>>

\* model_check_query, lines 176-177: the model sees the last message only
model_check_query ==
    /\ CanRun("correct_query")
    /\ \E reply \in CheckReplies(question, Len(messages) + 1) :
           messages' = add_messages(messages, <<reply>>)
    /\ pc' = "execute_query"
    /\ steps' = steps + 1
    /\ llmInput' = LLMInput("correct_query", messages)
    /\ UNCHANGED <<question, genEntries, outcome, others>>

\* execute_query followed by an edge back to model_get_schema
execute_query_to_schema ==
    /\ CanRun("execute_query")
    /\ \E handled \in BOOLEAN :
           messages' = add_messages(messages, ToolNodeWithFallback(messages, "", handled))
    /\ pc' = "model_get_schema"
    /\ steps' = steps + 1
    /\ UNCHANGED <<question, genEntries, outcome, llmInput, others>>

\* node execute_query, line 243, and the edge of line 264
execute_query ==
    /\ CanRun("execute_query")
    /\ \E handled \in BOOLEAN :
           messages' = add_messages(messages, ToolNodeWithFallback(messages, "", handled))
    /\ pc' = "query_gen"
    /\ steps' = steps + 1
    /\ UNCHANGED <<question, genEntries, outcome, llmInput, others>>

\* the failure of the language model returned as the answer instead of a 500
LLMFailsAsAnswer ==
    /\ pc \in {"model_get_schema", "query_gen", "correct_query"}
    /\ steps < RecursionLimit
    /\ outcome' = Answer(LLMErrorText)
    /\ pc' = "returned"
    /\ llmInput' = LLMInput(pc, messages)
    /\ UNCHANGED <<question, messages, steps, genEntries, others>>

\* a call of the language model raises: invoke raises, run_query answers 500
LLMFails ==
    /\ pc \in {"model_get_schema", "query_gen", "correct_query"}
    /\ steps < RecursionLimit
    /\ outcome' = Failure(LLMErrorText)
    /\ pc' = "returned"
    /\ llmInput' = LLMInput(pc, messages)
    /\ UNCHANGED <<question, messages, steps, genEntries, others>>

\* the recursion limit is used up: invoke raises GraphRecursionError and
\* run_query, lines 285-286, answers 500
RecursionLimitReached ==
    /\ pc \in Nodes \cup {"__end__"}
    /\ steps = RecursionLimit
    /\ outcome' = Failure(RecursionText)
    /\ pc' = "returned"
    /\ UNCHANGED <<question, messages, steps, genEntries, llmInput, others>>

\* run_query without the test of line 282
run_query_unchecked ==
    /\ pc = "__end__"
    /\ steps < RecursionLimit
    /\ LET args == Last(messages).tool_calls[1].args IN
       outcome' = IF ~HasArg(args, "final_answer") THEN Failure(KeyErrorText)
                  ELSE Answer(Arg(args, "final_answer"))
    /\ pc' = "returned"
    /\ UNCHANGED <<question, messages, steps, genEntries, llmInput, others>>

\* run_query lines 281-286, once invoke has returned: the graph has
\* reached END with the recursion limit not used up
run_query ==
    /\ pc = "__end__"
    /\ steps < RecursionLimit
    /\ LET args == Last(messages).tool_calls[1].args IN
       outcome' = IF ~HasArg(args, "final_answer") THEN Failure(KeyErrorText)
                  ELSE IF ~Truthy(Arg(args, "final_answer"))
                       THEN Failure(MissingFinalAnswerText)
                  ELSE Answer(Arg(args, "final_answer"))
    /\ pc' = "returned"
    /\ UNCHANGED <<question, messages, steps, genEntries, llmInput, others>>

Next ==
    \/ first_tool_call
    \/ list_tables_tool
    \/ model_get_schema
    \/ get_schema_tool
    \/ query_gen_node
    \/ model_check_query
    \/ execute_query
    \/ LLMFails
    \/ RecursionLimitReached
    \/ run_query

Spec == Init /\ [][Next]_vars

\* the steps that wait for nothing outside the process are taken: the start
\* of the graph, the raise at the recursion limit, the return of run_query
LiveSpec ==
    Spec /\ WF_vars(first_tool_call) /\ WF_vars(RecursionLimitReached) /\ WF_vars(run_query)

----------------------------------------------------------------------------
(* Vocabulary of the properties.                                           *)

\* the step runs the node: one more step is counted
NodeRan(node) == pc = node /\ steps' = steps + 1

\* the messages the step adds to the conversation
Appended == SubSeq(messages', Len(messages) + 1, Len(messages'))

\* an AIMessage with calls, all of them SubmitFinalAnswer
AllSubmit(m) ==
    /\ m.type = "ai"
    /\ m.tool_calls # << >>
    /\ \A i \in 1..Len(m.tool_calls) : m.tool_calls[i].name = "SubmitFinalAnswer"

\* the calls of m that are not SubmitFinalAnswer, as positions
WrongCalls(m) == {i \in 1..Len(m.tool_calls) : m.tool_calls[i].name # "SubmitFinalAnswer"}

----------------------------------------------------------------------------
(* C1: a run ends with an Answer only through the submit action.  END is   *)
(* reached only by a step of query_gen whose message is the last of the    *)
(* conversation and carries nothing but SubmitFinalAnswer calls, and an    *)
(* Answer is returned only from END and is the final_answer of the first   *)
(* call of that message.  A message mixing a submit call with another call *)
(* never reaches END.                                                      *)
C1_OnlySubmitEnds ==
    [][ /\ pc' = "__end__" =>
              /\ NodeRan("query_gen")
              /\ Len(messages') = Len(messages) + 1
              /\ AllSubmit(Last(messages'))
        /\ outcome'.kind = "answer" =>
              /\ pc = "__end__"
              /\ AllSubmit(Last(messages))
              /\ HasArg(Last(messages).tool_calls[1].args, "final_answer")
              /\ outcome'.text = Arg(Last(messages).tool_calls[1].args, "final_answer")
        /\ (NodeRan("query_gen") /\ WrongCalls(messages'[Len(messages) + 1]) # {}) =>
              pc' # "__end__"
      ]_vars

\* a run returned the answer of the first of two submit calls
C1_Witness ==
    /\ pc = "returned"
    /\ outcome = Answer(AnswerText)
    /\ Len(Last(messages).tool_calls) = 2

SelectsNothing(call) ==
    /\ HasArg(call.args, "query")
    /\ DbExecute(Arg(call.args, "query")).ok
    /\ DbExecute(Arg(call.args, "query")).rows = << >>

\* the call runs a statement the engine rejects
Rejected(call) ==
    /\ HasArg(call.args, "query")
    /\ ~DbExecute(Arg(call.args, "query")).ok

\* the executor fails on the call: invoking it raises, or the engine rejects the SQL
ExecutorFails(call) ==
    \/ CallRaises(call)
    \/ HasArg(call.args, "query") /\ ~DbExecute(Arg(call.args, "query")).ok

\* no call of the message raises when it is invoked
NoneRaises(m) == \A i \in 1..Len(m.tool_calls) : ~CallRaises(m.tool_calls[i])

(* C4: every failure of the executor, a statement the engine rejects or an *)
(* invocation that raises, is answered by execute_query with a ToolMessage *)
(* whose text begins with "Error:", and the node after execute_query is    *)
(* query_gen, never END: the failure does not end the run.                 *)
C4_ExecutorFailureLoopsBack ==
    [][ NodeRan("execute_query") =>
          LET calls == Last(messages).tool_calls IN
          /\ pc' = "query_gen"
          /\ outcome' = NoOutcome
          /\ Len(Appended) = Len(calls)
          /\ \A i \in 1..Len(calls) :
                ExecutorFails(calls[i]) =>
                    /\ Appended[i].type = "tool"
                    /\ Appended[i].tool_call_id = calls[i].id
                    /\ StartsWith(Appended[i].content, "Error:")
      ]_vars

\* execute_query has answered a statement the engine rejected with the
\* driver's "Error:" text, and the run is back at query_gen
C4_Witness ==
    /\ pc = "query_gen"
    /\ outcome = NoOutcome
    /\ Len(messages) >= 2
    /\ messages[Len(messages) - 1].tool_calls # << >>
    /\ Rejected(messages[Len(messages) - 1].tool_calls[1])
    /\ Last(messages) =
           ToolMessage("Error: " \o DbExecute(QBadCol).error,
                       messages[Len(messages) - 1].tool_calls[1].id)

(* C5: a statement that succeeds with an empty result set is answered with *)
(* a text that does not begin with "Error:" and that differs from the      *)
(* answer to every rejected statement.                                     *)
C5_EmptyResultIsNoError ==
    [][ (NodeRan("execute_query") /\ NoneRaises(Last(messages))) =>
          LET calls == Last(messages).tool_calls IN
          \A i \in 1..Len(calls) :
              SelectsNothing(calls[i]) =>
                  /\ ~StartsWith(Appended[i].content, "Error:")
                  /\ \A q \in Queries :
                        ~DbExecute(q).ok => Appended[i].content # db_query_tool(q)
      ]_vars

(* C6: a statement the engine rejects is answered with exactly the literal *)
(* "Error: Query failed. Please rewrite your query and try again.".        *)
C6_RejectedGivesFixedLiteral ==
    [][ (NodeRan("execute_query") /\ NoneRaises(Last(messages))) =>
          LET calls == Last(messages).tool_calls IN
          \A i \in 1..Len(calls) :
              Rejected(calls[i]) =>
                  Appended[i].content
                      = "Error: Query failed. Please rewrite your query and try again."
      ]_vars

(* C7: when the message of query_gen carries calls that are not            *)
(* SubmitFinalAnswer, the step appends, right after that message, exactly  *)
(* one ToolMessage for each of them, in their order, with the id of the    *)
(* call and an "Error:" text naming the tool called; the next node is      *)
(* query_gen and nothing is returned to the caller.                        *)
C7_WrongToolRejected ==
    [][ NodeRan("query_gen") =>
          LET message == messages'[Len(messages) + 1]
              calls == message.tool_calls
              rest == SubSeq(messages', Len(messages) + 2, Len(messages'))
          IN  WrongCalls(message) # {} =>
                /\ message.type = "ai"
                /\ Len(rest) = Cardinality(WrongCalls(message))
                /\ \A i \in WrongCalls(message) :
                      LET k == Cardinality({j \in WrongCalls(message) : j <= i}) IN
                      /\ rest[k].type = "tool"
                      /\ rest[k].tool_call_id = calls[i].id
                      /\ StartsWith(rest[k].content,
                             "Error: The wrong tool was called: " \o calls[i].name \o ".")
                /\ pc' = "query_gen"
                /\ outcome' = NoOutcome
      ]_vars

\* query_gen answered a message of two wrong calls and is to run again
C7_Witness ==
    /\ pc = "query_gen"
    /\ Len(messages) >= 3
    /\ LET m == messages[Len(messages) - 2] IN
       /\ Len(m.tool_calls) = 2
       /\ WrongCalls(m) = {1, 2}
       /\ messages[Len(messages) - 1].tool_call_id = m.tool_calls[1].id
       /\ Last(messages).tool_call_id = m.tool_calls[2].id

\* an AIMessage whose calls are n calls of db_query_tool and nothing else
RunQueryCalls(m) ==
    /\ m.type = "ai"
    /\ \A i \in 1..Len(m.tool_calls) : m.tool_calls[i].name = "db_query_tool"

(* C8, as claimed: correct_query appends one AIMessage carrying exactly    *)
(* one db_query_tool call, and the next node is execute_query.             *)
C8_ExactlyOneRunQuery ==
    [][ NodeRan("correct_query") =>
          /\ Len(Appended) = 1
          /\ RunQueryCalls(Appended[1])
          /\ Len(Appended[1].tool_calls) = 1
          /\ pc' = "execute_query"
      ]_vars

(* C8, amended: whenever the call of the language model in correct_query   *)
(* returns, the node appends one AIMessage carrying one or more calls, all *)
(* of db_query_tool, the next node is execute_query, never END or          *)
(* query_gen, and nothing is returned to the caller.                       *)
C8_AtLeastOneRunQuery ==
    [][ NodeRan("correct_query") =>
          /\ Len(Appended) = 1
          /\ RunQueryCalls(Appended[1])
          /\ Len(Appended[1].tool_calls) >= 1
          /\ pc' = "execute_query"
          /\ outcome' = NoOutcome
      ]_vars

\* correct_query has answered with two db_query_tool calls
C8_Witness ==
    /\ pc = "execute_query"
    /\ RunQueryCalls(Last(messages))
    /\ Len(Last(messages).tool_calls) = 2

\* the nodes that call the language model
ModelNodes == {"model_get_schema", "query_gen", "correct_query"}

(* C9: a failed call of the language model ends the run at once with one   *)
(* Failure: the step that reports it leaves a node calling the model,      *)
(* runs no node, adds no message and returns, and a run that has returned  *)
(* takes no further step, so nothing is retried and no Answer follows.     *)
C9_ModelFailureEndsRun ==
    [][ /\ (outcome'.text = LLMErrorText /\ outcome' # outcome) =>
              /\ pc \in ModelNodes
              /\ outcome = NoOutcome
              /\ outcome'.kind = "failure"
              /\ pc' = "returned"
              /\ messages' = messages
              /\ steps' = steps
        /\ pc # "returned"
      ]_vars

\* the language model failed in correct_query and the run returned a failure
C9_Witness ==
    /\ pc = "returned"
    /\ outcome = Failure(LLMErrorText)
    /\ Last(messages).type = "ai"
    /\ Last(messages).content = QEarliest

\* the tool nodes and the node that follows each
ToolNodes == {"list_tables_tool", "get_schema_tool", "execute_query"}

AfterToolNode(node) == IF node = "list_tables_tool" THEN "model_get_schema" ELSE "query_gen"

\* the tool fails on the call: the invocation raises, the engine rejects
\* the SQL, or the table is unknown
ToolFails(call) ==
    \/ ExecutorFails(call)
    \/ HasArg(call.args, "table_names") /\ Arg(call.args, "table_names") # TableNames

\* a tool node answers every call of the last message with one ToolMessage
\* carrying its id, with an "Error:" text where the tool failed, and goes on
ToolFailuresStayInside ==
    [][ \A node \in ToolNodes :
          NodeRan(node) =>
              LET calls == Last(messages).tool_calls IN
              /\ Len(Appended) = Len(calls)
              /\ \A i \in 1..Len(calls) :
                    /\ Appended[i].type = "tool"
                    /\ Appended[i].tool_call_id = calls[i].id
                    /\ ToolFails(calls[i]) => StartsWith(Appended[i].content, "Error:")
              /\ (node = "list_tables_tool" /\ Appended[1].content # TableNames) =>
                     StartsWith(Appended[1].content, "Error:")
              /\ pc' = AfterToolNode(node)
              /\ outcome' = NoOutcome
      ]_vars

----------------------------------------------------------------------------
(* Concurrent requests.  run_query is a plain def (line 274), so FastAPI   *)
(* runs each request on a thread of its pool; every invocation builds its  *)
(* own state (line 277) and hands it to workflow_app.invoke (line 278),    *)
(* which was compiled without a checkpointer (line 267).  The variables    *)
(* question .. llmInput hold the invocation that is running, runs holds    *)
(* the others, and Switch is the scheduler handing the processor over.     *)

Requests == {1, 2}

\* the invocation that is running, as a record
Current ==
    [question |-> question, messages |-> messages, pc |-> pc, steps |-> steps,
     genEntries |-> genEntries, outcome |-> outcome, llmInput |-> llmInput]

\* run_query line 277 for the question q
Fresh(q) ==
    [question |-> q, messages |-> <<HumanMessage(q)>>, pc |-> "first_tool_call",
     steps |-> 0, genEntries |-> 0, outcome |-> NoOutcome, llmInput |-> << >>]

\* the invocations waiting once request r takes over from the running one
Parked(r) ==
    [x \in (DOMAIN runs \ {r}) \cup {active} |-> IF x = active THEN Current ELSE runs[x]]

\* the invocations sharing one list of messages: the thread that takes over
\* finds the conversation of the thread that ran before
SwitchSharedMessages(r) ==
    /\ r \in DOMAIN runs
    /\ runs' = Parked(r)
    /\ active' = r
    /\ question' = runs[r].question
    /\ pc' = runs[r].pc
    /\ steps' = runs[r].steps
    /\ genEntries' = runs[r].genEntries
    /\ outcome' = runs[r].outcome
    /\ llmInput' = runs[r].llmInput
    /\ UNCHANGED <<messages, table, response>>

\* the thread of request r takes over: each thread finds its own locals
\* (state, result_state of lines 277-278) as it left them
Switch(r) ==
    /\ r \in DOMAIN runs
    /\ runs' = Parked(r)
    /\ active' = r
    /\ question' = runs[r].question
    /\ messages' = runs[r].messages
    /\ pc' = runs[r].pc
    /\ steps' = runs[r].steps
    /\ genEntries' = runs[r].genEntries
    /\ outcome' = runs[r].outcome
    /\ llmInput' = runs[r].llmInput
    /\ UNCHANGED <<table, response>>

\* two requests in flight: one whose generator keeps asking again, one
\* whose statement goes through the validator and the executor
ConcInit ==
    /\ question = QuestionRetry
    /\ messages = Fresh(question).messages
    /\ pc = Fresh(question).pc
    /\ steps = Fresh(question).steps
    /\ genEntries = Fresh(question).genEntries
    /\ outcome = Fresh(question).outcome
    /\ llmInput = Fresh(question).llmInput
    /\ active = 1
    /\ runs = [r \in Requests \ {active} |-> Fresh(QuestionHours)]
    /\ table = OutletsTable
    /\ response = NoResponse

ConcNext == Next \/ \E r \in Requests : Switch(r)

ConcSpec == ConcInit /\ [][ConcNext]_vars

\* the invocation of request r, running or waiting
RunOf(r) == IF r = active THEN Current ELSE runs[r]

\* the conversation of an invocation holds its own messages only: it opens
\* with its own question, holds no other question, and every ToolMessage
\* answers a call of an earlier AIMessage of the same conversation
OwnMessages(inv) ==
    /\ inv.messages[1] = HumanMessage(inv.question)
    /\ \A i \in 2..Len(inv.messages) :
          /\ inv.messages[i].type # "human"
          /\ inv.messages[i].type = "tool" =>
                \E j \in 2..(i - 1) :
                    \E k \in 1..Len(inv.messages[j].tool_calls) :
                        inv.messages[j].tool_calls[k].id = inv.messages[i].tool_call_id

\* what an invocation gives back comes from its own conversation
OwnAnswer(inv) ==
    inv.outcome.kind = "answer" =>
        /\ AllSubmit(Last(inv.messages))
        /\ HasArg(Last(inv.messages).tool_calls[1].args, "final_answer")
        /\ inv.outcome.text = Arg(Last(inv.messages).tool_calls[1].args, "final_answer")

(* C11: concurrent invocations are independent.  At every moment the       *)
(* conversation of each invocation holds only its own messages and its     *)
(* answer is the one its own conversation carries; a step changes the      *)
(* state of at most the invocation that is running, and a change of        *)
(* thread changes the state of none.                                       *)
C11_RunsIndependent ==
    /\ [](\A r \in Requests : OwnMessages(RunOf(r)) /\ OwnAnswer(RunOf(r)))
    /\ [][\A r \in Requests :
             (r # active \/ active' # active) => RunOf(r)' = RunOf(r)]_vars

\* both invocations have run through the graph and returned an answer,
\* each to its own question, the first after more retries than the second
C11_Witness ==
    /\ \A r \in Requests :
          /\ RunOf(r).pc = "returned"
          /\ RunOf(r).outcome.kind = "answer"
          /\ RunOf(r).steps >= 5
    /\ RunOf(1).messages # RunOf(2).messages
    /\ Len(RunOf(1).messages) > Len(RunOf(2).messages)

----------------------------------------------------------------------------
(* The lookups GET /outlets and GET /outlets/{outlet_id}, lines 55-78.     *)
(* A row keeps the columns id, name and start_time of the nine selected.   *)

MaxOutlets == 2

OutletIds == {1, 2}

\* the ids asked for: the ids of rows, and one no row has
AskedIds == OutletIds \cup {9999}

Rows == [id : OutletIds, name : {"Outlet A", "Outlet B"}, start_time : {"06:00"}]

\* the tables of at most MaxOutlets rows
Tables == UNION {[1..n -> Rows] : n \in 0..MaxOutlets}

\* cursor.fetchall() of SELECT ... FROM outlets, lines 59-60
SelectAll(rows) == rows

\* the rows of SELECT ... FROM outlets WHERE id = ?, line 73
SelectById(rows, outlet_id) == SelectSeq(rows, LAMBDA row : row.id = outlet_id)

\* cursor.fetchone(), line 74: the first row, or None (the empty sequence)
fetchone(rows) == IF rows = << >> THEN << >> ELSE <<rows[1]>>

\* the value a lookup returns, with status 200
Found(call, arg, body) == [call |-> call, arg |-> arg, status |-> 200, body |-> body]

\* raise HTTPException(status_code=404, detail=detail), lines 63 and 77
NotFound(call, arg, detail) == [call |-> call, arg |-> arg, status |-> 404, body |-> detail]

\* get_all_outlets answering an empty table with an empty list
get_all_outlets_unchecked ==
    /\ LET outlets == SelectAll(table) IN
       response' = Found("get_all_outlets", 0, [i \in 1..Len(outlets) |-> outlets[i]])
    /\ UNCHANGED <<table, invocation, runs, active>>

\* lines 55-65
get_all_outlets ==
    /\ LET outlets == SelectAll(table) IN
       response' = IF outlets = << >>
                   THEN NotFound("get_all_outlets", 0, "No outlets found.")
                   ELSE Found("get_all_outlets", 0, [i \in 1..Len(outlets) |-> outlets[i]])
    /\ UNCHANGED <<table, invocation, runs, active>>

\* lines 68-78
get_outlet(outlet_id) ==
    /\ LET outlet == fetchone(SelectById(table, outlet_id)) IN
       response' = IF outlet = << >>
                   THEN NotFound("get_outlet", outlet_id, "Outlet not found.")
                   ELSE Found("get_outlet", outlet_id, outlet[1])
    /\ UNCHANGED <<table, invocation, runs, active>>

\* any table of outlets, no lookup answered, no question being worked on
ApiInit ==
    /\ table \in Tables
    /\ response = NoResponse
    /\ question = QuestionHours
    /\ messages = Fresh(question).messages
    /\ pc = Fresh(question).pc
    /\ steps = Fresh(question).steps
    /\ genEntries = Fresh(question).genEntries
    /\ outcome = Fresh(question).outcome
    /\ llmInput = Fresh(question).llmInput
    /\ runs = << >>
    /\ active = 1

ApiNext == get_all_outlets \/ \E outlet_id \in AskedIds : get_outlet(outlet_id)

ApiSpec == ApiInit /\ [][ApiNext]_vars

\* the rows of the table with the id
WithId(outlet_id) == {i \in 1..Len(table) : table[i].id = outlet_id}

\* the response is the one the claim asks of the lookup that gave it
RightResponse(resp) ==
    /\ resp.call = "get_outlet" =>
          IF WithId(resp.arg) = {}
          THEN resp.status = 404
          ELSE /\ resp.status = 200
               /\ \E i \in WithId(resp.arg) : resp.body = table[i]
    /\ resp.call = "get_all_outlets" =>
          IF table = << >>
          THEN resp.status = 404
          ELSE resp.status = 200 /\ resp.body = table

(* C13: the lookups signal not-found exactly when there is nothing to      *)
(* return.  get_outlet gives the record with the id when the table has     *)
(* one and 404 otherwise, get_all_outlets gives all the records of a       *)
(* table that has some and 404 for an empty table, and no lookup changes   *)
(* the table.                                                              *)
C13_NotFoundIffNothing ==
    [][/\ table' = table
       /\ response'.status \in {200, 404}
       /\ RightResponse(response')]_vars

\* get_outlet(9999) on an empty table gave 404
C13_Witness ==
    /\ table = << >>
    /\ response = NotFound("get_outlet", 9999, "Outlet not found.")

----------------------------------------------------------------------------
\* the text begins with the six characters E r r o r :
BeginsWithError(text) == Len(text) >= 6 /\ SubSeq(text, 1, 6) = "Error:"

(* C14: the branch taken after a step of query_gen depends on the last     *)
(* message of the conversation only.  If it carries a call the run goes    *)
(* to END, whatever its text; otherwise, if its text begins with "Error:"  *)
(* in exactly this case, the run goes back to query_gen; otherwise, an     *)
(* empty text included, it goes to correct_query.                          *)
C14_BranchByLastMessage ==
    [][NodeRan("query_gen") =>
          LET last == Last(messages') IN
          /\ last.tool_calls # << >> => pc' = "__end__"
          /\ (last.tool_calls = << >> /\ BeginsWithError(last.content)) => pc' = "query_gen"
          /\ (last.tool_calls = << >> /\ ~BeginsWithError(last.content)) =>
                 pc' = "correct_query"]_vars

\* query_gen went to END on a message whose text begins with "Error:" and
\* which carries a call, after it had gone to correct_query on a text
\* beginning with "error:"
C14_Witness ==
    /\ pc = "__end__"
    /\ BeginsWithError(Last(messages).content)
    /\ Last(messages).tool_calls # << >>
    /\ \E i \in 1..Len(messages) :
          /\ messages[i].type = "ai"
          /\ messages[i].tool_calls = << >>
          /\ Len(messages[i].content) >= 6
          /\ SubSeq(messages[i].content, 1, 6) = "error:"

----------------------------------------------------------------------------
\* the ToolMessages of msgs that answer the call of message j with the id,
\* placed after message j and before the next AIMessage
ResultsOf(msgs, j, id) ==
    {i \in (j + 1)..Len(msgs) :
        /\ msgs[i].type = "tool"
        /\ msgs[i].tool_call_id = id
        /\ \A h \in (j + 1)..(i - 1) : msgs[h].type # "ai"}

\* the ToolMessages of msgs that carry the id, wherever they are
AnswersTo(msgs, id) == {i \in 1..Len(msgs) : msgs[i].type = "tool" /\ msgs[i].tool_call_id = id}

\* a node is about to call the language model
ModelNext == pc \in ModelNodes /\ steps < RecursionLimit /\ outcome = NoOutcome

(* C15, as claimed: whenever the language model is about to be called (on  *)
(* entry to model_get_schema, query_gen or correct_query), every call of   *)
(* every AIMessage of the conversation is answered by exactly one          *)
(* ToolMessage with its id, placed after that AIMessage and before the     *)
(* next one; no call is left unanswered and none is answered twice.        *)
C15_CallsPaired ==
    ModelNext =>
        \A j \in 1..Len(messages) :
            messages[j].type = "ai" =>
                \A k \in 1..Len(messages[j].tool_calls) :
                    LET id == messages[j].tool_calls[k].id IN
                    /\ Cardinality(ResultsOf(messages, j, id)) = 1
                    /\ Cardinality(AnswersTo(messages, id)) = 1

----------------------------------------------------------------------------
\* the text is the column and type information of a table
IsTableInfo(text) == StartsWith(text, "CREATE TABLE")

(* C16, as claimed: when query_gen is entered for the first time, the      *)
(* conversation holds the ToolMessage answering the sql_db_list_tables     *)
(* call and a ToolMessage answering a sql_db_schema call with the columns  *)
(* and types: model_get_schema always replies with a sql_db_schema call    *)
(* and get_schema_tool always appends one ToolMessage for it.              *)
C16_SchemaBeforeFirstQuery ==
    (pc = "query_gen" /\ genEntries = 0) =>
        /\ \E i \in 1..Len(messages) :
              messages[i].type = "tool" /\ messages[i].tool_call_id = "tool_abcd123"
        /\ \E j \in 1..Len(messages) :
              /\ messages[j].type = "ai"
              /\ \E k \in 1..Len(messages[j].tool_calls) :
                    /\ messages[j].tool_calls[k].name = "sql_db_schema"
                    /\ \E i \in ResultsOf(messages, j, messages[j].tool_calls[k].id) :
                          IsTableInfo(messages[i].content)

----------------------------------------------------------------------------
\* the nodes run before the first entry of query_gen, in their order
Prelude == <<"first_tool_call", "list_tables_tool", "model_get_schema", "get_schema_tool">>

\* the places a run may be in right after it was in the place from; a run
\* leaves the graph ("returned") from END, or from a node with a Failure
Successors(from) ==
    CASE from = "first_tool_call"  -> {"list_tables_tool"}
      [] from = "list_tables_tool" -> {"model_get_schema"}
      [] from = "model_get_schema" -> {"get_schema_tool", "returned"}
      [] from = "get_schema_tool"  -> {"query_gen"}
      [] from = "query_gen"        -> {"query_gen", "correct_query", "__end__", "returned"}
      [] from = "correct_query"    -> {"execute_query", "returned"}
      [] from = "execute_query"    -> {"query_gen", "returned"}
      [] from = "__end__"          -> {"returned"}
      [] OTHER                     -> {}

(* C17: the order of a run.  first_tool_call, list_tables_tool,            *)
(* model_get_schema and get_schema_tool are entered once each, in that     *)
(* order, as the first four nodes, before query_gen and never after it;    *)
(* after first_tool_call the conversation is the question followed by one  *)
(* AIMessage calling sql_db_list_tables with the id "tool_abcd123"; from   *)
(* the first query_gen on only query_gen, correct_query, execute_query     *)
(* and END are entered, and no node follows END.                           *)
C17_StateOrder ==
    /\ [](\A n \in 1..Len(Prelude) : pc = Prelude[n] <=> (steps = n - 1 /\ pc \in Nodes))
    /\ [](pc = "list_tables_tool" =>
             messages = <<HumanMessage(question),
                          AIMessage("", <<ToolCall("sql_db_list_tables", {}, "tool_abcd123")>>)>>)
    /\ [][/\ pc' \in Successors(pc)
          /\ pc' \in Nodes => steps' = steps + 1
          /\ pc = "__end__" => (messages' = messages /\ steps' = steps)
          /\ pc' = "returned" => (messages' = messages /\ outcome'.kind # "none")]_vars

\* a run went through the four first nodes, then twice through query_gen
\* with correct_query and execute_query between, and reached END
C17_Witness ==
    /\ pc = "__end__"
    /\ steps = 8
    /\ genEntries = 2
    /\ messages[2].tool_calls[1].id = "tool_abcd123"

----------------------------------------------------------------------------
\* a plain text of the language model: no call, no "Error:" at its start
PlainText(m) == m.type = "ai" /\ m.tool_calls = << >> /\ ~BeginsWithError(m.content)

(* C18: no SQL reaches the executor without passing the validator.         *)
(* execute_query is entered only right after correct_query, and            *)
(* correct_query only right after a step of query_gen whose last message   *)
(* is a plain text of the model; the validator is given that one message   *)
(* and nothing else; and what execute_query runs is the statement of the   *)
(* validator's db_query_tool calls, whose outputs it appends.              *)
C18_ValidatorBeforeExecutor ==
    [][/\ (pc' = "execute_query" /\ pc # "execute_query") => NodeRan("correct_query")
       /\ (pc' = "correct_query" /\ pc # "correct_query") =>
              NodeRan("query_gen") /\ PlainText(Last(messages'))
       /\ (pc = "correct_query" /\ llmInput' # llmInput) =>
              llmInput' = <<Last(messages)>> /\ PlainText(Last(messages))
       /\ NodeRan("correct_query") =>
              llmInput' = <<Last(messages)>> /\ RunQueryCalls(Last(messages'))
       /\ NodeRan("execute_query") =>
              LET calls == Last(messages).tool_calls IN
              /\ RunQueryCalls(Last(messages))
              /\ llmInput = <<messages[Len(messages) - 1]>>
              /\ Len(Appended) = Len(calls)
              /\ \A i \in 1..Len(calls) :
                    /\ Appended[i].tool_call_id = calls[i].id
                    /\ NoneRaises(Last(messages)) =>
                          Appended[i].content = db_query_tool(Arg(calls[i].args, "query"))]_vars

\* the generator wrote one statement, the validator, given that message
\* alone, called db_query_tool with another, and the conversation now ends
\* with the output of the validator's statement
C18_Witness ==
    /\ pc = "query_gen"
    /\ Len(messages) >= 3
    /\ LET text == messages[Len(messages) - 2]
           validated == messages[Len(messages) - 1]
       IN  /\ llmInput = <<text>>
           /\ PlainText(text)
           /\ text.content = QEarliest
           /\ validated.type = "ai"
           /\ Len(validated.tool_calls) = 1
           /\ HasArg(validated.tool_calls[1].args, "query")
           /\ Arg(validated.tool_calls[1].args, "query") = QNames
           /\ Last(messages) = ToolMessage(db_query_tool(QNames), validated.tool_calls[1].id)

----------------------------------------------------------------------------
\* the sequence short is the beginning of the sequence long
IsPrefix(short, long) ==
    /\ Len(short) <= Len(long)
    /\ \A i \in 1..Len(short) : long[i] = short[i]

(* C19: the conversation is append-only within a run.  Every step leaves   *)
(* the messages already there unchanged and in their order and adds only   *)
(* at the end, and the caller sees nothing of the run before it returns:   *)
(* there is no outcome until then, and the outcome is a text only.         *)
C19_AppendOnly ==
    /\ [][IsPrefix(messages, messages')]_vars
    /\ [](pc # "returned" <=> outcome = NoOutcome)
    /\ [](DOMAIN outcome = {"kind", "text"})

\* a run has returned its answer after its nodes added nine messages or
\* more to the question it started with
C19_Witness ==
    /\ pc = "returned"
    /\ outcome.kind = "answer"
    /\ Len(messages) >= 10
    /\ messages[1] = HumanMessage(question)

====
